---- MODULE Spec2Model ----
(***************************************************************************)
(* Two example notebooks of python-training, each a strictly sequential    *)
(* script:                                                                 *)
(*   maps : src/unnamed/part_000 (AWIPS maps database: counties of a WFO,  *)
(*          interstates, cities, lakes, rivers, topography)                *)
(*   sat  : src/pages/gallery/satellite_sfc_obs.ipynb (GOES image + METAR) *)
(* A geometry is modelled as a finite set of integer cells of a line: the  *)
(* union of geometries is set union, buffer(d) adds every cell within      *)
(* distance d, two geometries intersect when they share a cell.            *)
(* A Python string that the code parses is a sequence of characters.       *)
(* The kernel namespace is the function ns: a name is bound iff it is in   *)
(* DOMAIN ns.  An option value is <<>> (None) or <<v>>.                    *)
(***************************************************************************)
EXTENDS Integers, Sequences, FiniteSets, TLC

VARIABLES nb,          \* which notebook this run executes: "maps" or "sat"
          pc,          \* the next statement group to execute, "done" or "failed"
          err,         \* "none", or the exception that ended the run
          ns,          \* the kernel namespace: bound name -> value
          edexHost,    \* DataAccessLayer's module-level host
          sent,        \* every request the remote services received, in order
          figure,      \* the artists added to the matplotlib axes, in order
          fs,          \* local directory ../../data: file name -> content
          fsAtStart,   \* fs as it was before the run
          countyTable, \* remote table mapdata.county
          goesCat,     \* remote GOES catalog: sequence of datasets
          metarCat     \* remote METAR catalog: sequence of dataset names

vars == <<nb, pc, err, ns, edexHost, sent, figure, fs, fsAtStart,
          countyTable, goesCat, metarCat>>
remote == <<nb, fsAtStart, countyTable, goesCat, metarCat>>

\* ---------------------------------------------------------------- bounds
MaxCounties == 2       \* rows of mapdata.county
MaxCities == 2         \* rows of mapdata.city
MaxDatasets == 12      \* datasets of the GOES catalog

\* ------------------------------------------------------ program constants
BufferDist == 2        \* merged_counties.buffer(2)
BboxPad == 1           \* bounds[0]-1, bounds[2]+1
ProgDiscMin == 50      \* getNumber("prog_disc") > 50
PopMin == 5000         \* int(getString("population")) > 5000
FileNumLimit == 10     \* len(list(cat.datasets)) < 10 ... else file_num = 10

\* ----------------------------------------------------------- namespace
Bind(f, k, v) == [n \in DOMAIN f \cup {k} |-> IF n = k THEN v ELSE f[n]]
Bound(k) == k \in DOMAIN ns
EmptyDict == [n \in {} |-> 0]
NoEnvelope == <<>>

\* control: the next statement, or the unhandled exception that ends the run
Goto(l) == pc' = l /\ err' = err
Raise_retry(e) == pc' = pc /\ err' = e
Raise(e) == pc' = "failed" /\ err' = e

\* ------------------------------------------------------------- geometry
Abs(x) == IF x < 0 THEN -x ELSE x
Min(S) == CHOOSE x \in S : \A y \in S : x <= y
Max(S) == CHOOSE x \in S : \A y \in S : x >= y
RECURSIVE cascaded_union_seq(_, _)
cascaded_union_seq(geoms, i) ==
    IF i > Len(geoms) THEN {} ELSE geoms[i] \cup cascaded_union_seq(geoms, i + 1)
cascaded_union(geoms) == cascaded_union_seq(geoms, 1)
buffer(g, d) ==
    IF g = {} THEN {} ELSE {c \in (Min(g) - d)..(Max(g) + d) : \E x \in g : Abs(c - x) <= d}
intersects(g, h) == g \cap h # {}

\* --------------------------------------------------- data access requests
newDataRequest(datatype, envelope) ==
    [datatype |-> datatype, identifiers |-> EmptyDict, locationNames |-> {},
     parameters |-> <<>>, envelope |-> envelope]
addIdentifier_dropped(req, k, v) == req
addIdentifier(req, k, v) == [req EXCEPT !.identifiers = Bind(@, k, v)]
setLocationNames(req, name) == [req EXCEPT !.locationNames = {name}]
setParameters(req, params) == [req EXCEPT !.parameters = params]
setEnvelope_dropped(req, env) == req
setEnvelope(req, env) == [req EXCEPT !.envelope = <<env>>]

\* ----------------------------------------------- the remote maps database
Range(f) == {f[i] : i \in DOMAIN f}
SeqsUpTo(S, n) == UNION {[1..k -> S] : k \in 0..n}
CountyRows ==
    {[cwa |-> "BOU", geom |-> {4}], [cwa |-> "BOU", geom |-> {6, 7}],
     [cwa |-> "PUB", geom |-> {12}]}
CountyTables == SeqsUpTo(CountyRows, MaxCounties)
Populations ==
    {<<>>, <<"5", "0", "0", "0">>, <<"5", "0", "0", "1">>, <<"N", "o", "n", "e">>}
CityName(pop) ==
    IF pop = <<>> THEN "Ward"
    ELSE IF pop[4] = "0" THEN "Lyons" ELSE IF pop[4] = "1" THEN "Erie" ELSE "Nunn"
CityRows ==
    {[name |-> CityName(p), population |-> p, prog_disc |-> d,
      geom |-> IF d > ProgDiscMin THEN {8} ELSE {5}] :
        p \in Populations, d \in {ProgDiscMin, ProgDiscMin + 1}}
    \cup {[name |-> "Miami", population |-> <<"5", "0", "0", "1">>,
           prog_disc |-> ProgDiscMin + 1, geom |-> {40}]}
CityTables == SeqsUpTo(CityRows, MaxCities)
InterstateTable ==
    <<[name |-> "I-25", geom |-> {5, 6}], [name |-> "I-70", geom |-> {8, 9, 10}],
      [name |-> "I-95", geom |-> {40, 41}]>>
LakeTable ==
    <<[name |-> "Grand Lake", geom |-> {3}], [name |-> "Lake Okeechobee", geom |-> {41}]>>
RiverTable ==
    <<[pname |-> "South Platte", geom |-> {6, 7, 8}], [pname |-> "Mississippi", geom |-> {30}]>>
DB(cityTable) ==
    [t \in {"mapdata.county", "mapdata.interstate", "mapdata.city", "mapdata.lake",
            "mapdata.majorrivers"} |->
        CASE t = "mapdata.county" -> countyTable
          [] t = "mapdata.interstate" -> InterstateTable
          [] t = "mapdata.city" -> cityTable
          [] t = "mapdata.lake" -> LakeTable
          [] OTHER -> RiverTable]

\* the service rejects a maps request without its required identifiers
Accepts(req, db) ==
    /\ req.datatype = "maps"
    /\ {"table", "geomField"} \subseteq DOMAIN req.identifiers
    /\ req.identifiers["table"] \in DOMAIN db
\* the rows the request selects, each as a geometry with the requested parameters
Selected(req, row) ==
    /\ "inLocation" \in DOMAIN req.identifiers =>
          row[req.identifiers["locationField"]] \in req.locationNames
    /\ req.envelope # NoEnvelope => intersects(row.geom, req.envelope[1])
Query(req, db) ==
    LET rows == SelectSeq(db[req.identifiers["table"]], LAMBDA r : Selected(req, r))
    IN  [i \in 1..Len(rows) |->
            [geom |-> rows[i].geom,
             attrs |-> [p \in Range(req.parameters) |-> rows[i][p]]]]

\* DataAccessLayer.getGeometryData(request, []): bind the response to name
getGeometryData(name, db, next) ==
    \/ /\ Raise("ConnectionError")
       /\ UNCHANGED <<ns, sent>>
    \/ /\ sent' = Append(sent, [host |-> edexHost, request |-> ns.request])
       /\ IF Accepts(ns.request, db)
          THEN ns' = Bind(ns, name, Query(ns.request, db)) /\ Goto(next)
          ELSE Raise("ThriftRequestException") /\ UNCHANGED ns

\* np.append over the response: the geometries of the records, in order
Geometries(response) == [i \in 1..Len(response) |-> response[i].geom]
\* for geom in gs: ShapelyFeature(intersection(g) for g in gs if intersects(g))
Features(layer, gs) ==
    [i \in 1..Len(gs) |->
        [layer |-> layer,
         geoms |-> LET hit == SelectSeq(gs, LAMBDA g : intersects(gs[i], g))
                   IN  [j \in 1..Len(hit) |-> gs[i] \cap hit[j]]]]
\* for ob in response: ShapelyFeature(ob.getGeometry())
LineFeatures(layer, response) ==
    [i \in 1..Len(response) |-> [layer |-> layer, geoms |-> <<response[i].geom>>]]

\* --------------------------------- the remote catalogs and the data directory
Hours == {0, 1}
\* f'metar_{vtime:%Y%m%d}_{vtime:%H}00.txt'
MetarFile(vtime) == IF vtime = 0 THEN "metar_20200112_0000.txt" ELSE "metar_20200112_0100.txt"
MetarNames == {MetarFile(h) : h \in Hours}
GoesCatalogs ==
    {[i \in 1..n |-> [name |-> i, hour |-> (i + b) % Cardinality(Hours)]] :
        n \in 0..MaxDatasets, b \in Hours}
MetarCatalogs ==
    {c \in SeqsUpTo(MetarNames, Cardinality(MetarNames)) :
        \A i, j \in DOMAIN c : c[i] = c[j] => i = j}
DataDirs == [MetarNames -> {"absent", "old"}]

\* ------------------------------------------------------------------ Init
Init ==
    /\ nb \in {"maps", "sat"}
    /\ pc = IF nb = "maps" THEN "Setup" ELSE "OpenGoesCatalog"
    /\ err = "none"
    /\ ns = EmptyDict
    /\ edexHost = "unset"
    /\ sent = <<>>
    /\ figure = <<>>
    /\ countyTable \in IF nb = "maps" THEN CountyTables ELSE {<<>>}
    /\ goesCat \in IF nb = "sat" THEN GoesCatalogs ELSE {<<>>}
    /\ metarCat \in IF nb = "sat" THEN MetarCatalogs ELSE {<<>>}
    /\ fsAtStart \in IF nb = "sat" THEN DataDirs ELSE {[f \in MetarNames |-> "absent"]}
    /\ fs = fsAtStart

\* ------------------------------------------------- notebook maps, by cell
\* cell Setup: host, request object, table identifier
Setup ==
    /\ nb = "maps" /\ pc = "Setup"
    /\ edexHost' = "edex-cloud.unidata.ucar.edu"
    /\ ns' = Bind(ns, "request",
                  addIdentifier(newDataRequest("maps", NoEnvelope), "table", "mapdata.county"))
    /\ Goto("CountyFilter")
    /\ UNCHANGED <<remote, sent, figure, fs>>

\* cell Request County Boundaries: the location filter of the request
CountyFilter ==
    /\ nb = "maps" /\ pc = "CountyFilter"
    /\ ns' = Bind(ns, "request",
            addIdentifier(addIdentifier(addIdentifier(addIdentifier(
                setLocationNames(ns.request, "BOU"),
                "cwa", "BOU"), "geomField", "the_geom"), "inLocation", "true"),
                "locationField", "cwa"))
    /\ Goto("CountySubmit")
    /\ UNCHANGED <<remote, edexHost, sent, figure, fs>>

CountySubmit ==
    /\ nb = "maps" /\ pc = "CountySubmit"
    /\ getGeometryData("response", DB(<<>>), "CountyCollect")
    /\ UNCHANGED <<remote, edexHost, figure, fs>>

CountyCollect ==
    /\ nb = "maps" /\ pc = "CountyCollect"
    /\ ns' = Bind(ns, "counties", Geometries(ns.response))
    /\ Goto("MergeCounties")
    /\ UNCHANGED <<remote, edexHost, sent, figure, fs>>

MergeCounties ==
    /\ nb = "maps" /\ pc = "MergeCounties"
    /\ LET merged_counties == cascaded_union(ns.counties)
       IN  ns' = Bind(Bind(Bind(ns, "merged_counties", merged_counties),
                           "envelope", buffer(merged_counties, BufferDist)),
                      "boundaries", <<merged_counties>>)
    /\ Goto("Bounds")
    /\ UNCHANGED <<remote, edexHost, sent, figure, fs>>

\* merged_counties.bounds is () for an empty geometry: bounds[0] raises
Bounds ==
    /\ nb = "maps" /\ pc = "Bounds"
    /\ IF ns.merged_counties = {}
       THEN Raise("IndexError") /\ UNCHANGED ns
       ELSE LET bounds == <<Min(ns.merged_counties), Max(ns.merged_counties)>>
            IN  /\ ns' = Bind(Bind(ns, "bounds", bounds),
                              "bbox", <<bounds[1] - BboxPad, bounds[2] + BboxPad>>)
                /\ Goto("MakeMap")
    /\ UNCHANGED <<remote, edexHost, sent, figure, fs>>

MakeMap ==
    /\ nb = "maps" /\ pc = "MakeMap"
    /\ ns' = Bind(ns, "ax", "GeoAxes")
    /\ figure' = <<[layer |-> "extent", geoms |-> <<ns.bbox[1]..ns.bbox[2]>>],
                   [layer |-> "political_boundaries", geoms |-> <<>>],
                   [layer |-> "states", geoms |-> <<>>]>>
    /\ Goto("PlotCounties")
    /\ UNCHANGED <<remote, edexHost, sent, fs>>

PlotCounties ==
    /\ nb = "maps" /\ pc = "PlotCounties"
    /\ figure' = figure \o Features("counties", ns.counties)
    /\ Goto("PlotBoundaries")
    /\ UNCHANGED <<remote, ns, edexHost, sent, fs>>

\* cell Create a merged CWA
PlotBoundaries ==
    /\ nb = "maps" /\ pc = "PlotBoundaries"
    /\ figure' = figure \o Features("boundaries", ns.boundaries)
    /\ Goto("InterstateConfigure")
    /\ UNCHANGED <<remote, ns, edexHost, sent, fs>>

\* cell WFO boundary spatial filter for interstates
InterstateConfigure ==
    /\ nb = "maps" /\ pc = "InterstateConfigure"
    /\ ns' = Bind(ns, "request",
            setParameters(addIdentifier(addIdentifier(
                newDataRequest("maps", <<ns.envelope>>),
                "table", "mapdata.interstate"), "geomField", "the_geom"), <<"name">>))
    /\ Goto("InterstateSubmit")
    /\ UNCHANGED <<remote, edexHost, sent, figure, fs>>

InterstateSubmit ==
    /\ nb = "maps" /\ pc = "InterstateSubmit"
    /\ getGeometryData("interstates", DB(<<>>), "InterstatePlot")
    /\ UNCHANGED <<remote, edexHost, figure, fs>>

InterstatePlot ==
    /\ nb = "maps" /\ pc = "InterstatePlot"
    /\ figure' = figure \o LineFeatures("interstates", ns.interstates)
    /\ Goto("CityConfigure")
    /\ UNCHANGED <<remote, ns, edexHost, sent, fs>>

\* Python int(str) on a string of characters: the value, or ValueError
Digits == <<"0", "1", "2", "3", "4", "5", "6", "7", "8", "9">>
IsInt(str) == str # <<>> /\ \A i \in 1..Len(str) : str[i] \in Range(Digits)
DigitValue(c) == (CHOOSE d \in 1..Len(Digits) : Digits[d] = c) - 1
RECURSIVE int(_)
int(str) ==
    IF str = <<>> THEN 0
    ELSE int(SubSeq(str, 1, Len(str) - 1)) * Len(Digits) + DigitValue(str[Len(str)])

\* for ob in cities: the three nested ifs, appending to citylist and cityname
RECURSIVE CityLoop_atleast(_, _, _, _)
CityLoop_atleast(cities, i, citylist, cityname) ==
    IF i > Len(cities)
    THEN [raised |-> FALSE, citylist |-> citylist, cityname |-> cityname]
    ELSE LET ob == cities[i]
         IN  IF ob.attrs["population"] # <<>> /\ ob.attrs["prog_disc"] > ProgDiscMin
             THEN IF ~IsInt(ob.attrs["population"])
                  THEN [raised |-> TRUE, citylist |-> citylist, cityname |-> cityname]
                  ELSE IF int(ob.attrs["population"]) >= PopMin
                       THEN CityLoop_atleast(cities, i + 1, Append(citylist, ob.geom),
                                             Append(cityname, ob.attrs["name"]))
                       ELSE CityLoop_atleast(cities, i + 1, citylist, cityname)
             ELSE CityLoop_atleast(cities, i + 1, citylist, cityname)
RECURSIVE CityLoop(_, _, _, _)
CityLoop(cities, i, citylist, cityname) ==
    IF i > Len(cities)
    THEN [raised |-> FALSE, citylist |-> citylist, cityname |-> cityname]
    ELSE LET ob == cities[i]
         IN  IF ob.attrs["population"] # <<>> /\ ob.attrs["prog_disc"] > ProgDiscMin
             THEN IF ~IsInt(ob.attrs["population"])
                  THEN [raised |-> TRUE, citylist |-> citylist, cityname |-> cityname]
                  ELSE IF int(ob.attrs["population"]) > PopMin
                       THEN CityLoop(cities, i + 1, Append(citylist, ob.geom),
                                     Append(cityname, ob.attrs["name"]))
                       ELSE CityLoop(cities, i + 1, citylist, cityname)
             ELSE CityLoop(cities, i + 1, citylist, cityname)

\* cell Nearby cities
CityConfigure ==
    /\ nb = "maps" /\ pc = "CityConfigure"
    /\ ns' = Bind(ns, "request",
            setParameters(addIdentifier(addIdentifier(
                newDataRequest("maps", <<ns.envelope>>),
                "table", "mapdata.city"), "geomField", "the_geom"),
                <<"name", "population", "prog_disc">>))
    /\ Goto("CitySubmit")
    /\ UNCHANGED <<remote, edexHost, sent, figure, fs>>

CitySubmit ==
    /\ nb = "maps" /\ pc = "CitySubmit"
    /\ \E cityTable \in CityTables : getGeometryData("cities", DB(cityTable), "CityFilter")
    /\ UNCHANGED <<remote, edexHost, figure, fs>>

CityFilter ==
    /\ nb = "maps" /\ pc = "CityFilter"
    /\ LET loop == CityLoop(ns.cities, 1, <<>>, <<>>)
       IN  /\ ns' = Bind(Bind(ns, "citylist", loop.citylist), "cityname", loop.cityname)
           /\ IF loop.raised THEN Raise("ValueError") ELSE Goto("CityPlot")
    /\ UNCHANGED <<remote, edexHost, sent, figure, fs>>

\* ax.scatter of the city points, then one annotation per city name
CityPlot ==
    /\ nb = "maps" /\ pc = "CityPlot"
    /\ figure' = (figure \o <<[layer |-> "cities", geoms |-> ns.citylist]>>)
                 \o [i \in 1..Len(ns.cityname) |->
                        [layer |-> "citynames", geoms |-> <<ns.citylist[i]>>,
                         text |-> ns.cityname[i]]]
    /\ Goto("LakeConfigure")
    /\ UNCHANGED <<remote, ns, edexHost, sent, fs>>

\* cell Lakes
LakeConfigure ==
    /\ nb = "maps" /\ pc = "LakeConfigure"
    /\ ns' = Bind(ns, "request",
            setParameters(addIdentifier(addIdentifier(
                newDataRequest("maps", <<ns.envelope>>),
                "table", "mapdata.lake"), "geomField", "the_geom"), <<"name">>))
    /\ Goto("LakeSubmit")
    /\ UNCHANGED <<remote, edexHost, sent, figure, fs>>

LakeSubmit ==
    /\ nb = "maps" /\ pc = "LakeSubmit"
    /\ getGeometryData("response", DB(<<>>), "LakePlot")
    /\ UNCHANGED <<remote, edexHost, figure, fs>>

LakePlot ==
    /\ nb = "maps" /\ pc = "LakePlot"
    /\ ns' = Bind(ns, "lakes", Geometries(ns.response))
    /\ figure' = figure \o Features("lakes", Geometries(ns.response))
    /\ Goto("RiverConfigure")
    /\ UNCHANGED <<remote, edexHost, sent, fs>>

\* cell Major Rivers
RiverConfigure ==
    /\ nb = "maps" /\ pc = "RiverConfigure"
    /\ ns' = Bind(ns, "request",
            setParameters(addIdentifier(addIdentifier(
                newDataRequest("maps", <<ns.envelope>>),
                "table", "mapdata.majorrivers"), "geomField", "the_geom"), <<"pname">>))
    /\ Goto("RiverSubmit")
    /\ UNCHANGED <<remote, edexHost, sent, figure, fs>>

RiverSubmit ==
    /\ nb = "maps" /\ pc = "RiverSubmit"
    /\ getGeometryData("rivers", DB(<<>>), "RiverPlot")
    /\ UNCHANGED <<remote, edexHost, figure, fs>>

RiverPlot ==
    /\ nb = "maps" /\ pc = "RiverPlot"
    /\ figure' = figure \o LineFeatures("rivers", ns.rivers)
    /\ Goto("TopoConfigure")
    /\ UNCHANGED <<remote, ns, edexHost, sent, fs>>

\* cell Topography: the grid request, which the service refuses without an envelope
TopoConfigure ==
    /\ nb = "maps" /\ pc = "TopoConfigure"
    /\ ns' = Bind(ns, "request",
            setEnvelope(addIdentifier(addIdentifier(
                newDataRequest("topo", NoEnvelope), "group", "/"), "dataset", "full"),
                ns.envelope))
    /\ Goto("TopoSubmit")
    /\ UNCHANGED <<remote, edexHost, sent, figure, fs>>

TopoGrid(envelope) == [raw |-> [c \in envelope |-> 1500 + c], lons |-> envelope]
getGridData(name, next) ==
    \/ /\ Raise("ConnectionError")
       /\ UNCHANGED <<ns, sent>>
    \/ /\ sent' = Append(sent, [host |-> edexHost, request |-> ns.request])
       /\ IF /\ ns.request.datatype = "topo"
             /\ {"group", "dataset"} \subseteq DOMAIN ns.request.identifiers
             /\ ns.request.envelope # NoEnvelope
          THEN /\ \E gridData \in {<<>>, <<TopoGrid(ns.request.envelope[1])>>} :
                     ns' = Bind(ns, name, gridData)
               /\ Goto(next)
          ELSE Raise("ThriftRequestException") /\ UNCHANGED ns

TopoSubmit ==
    /\ nb = "maps" /\ pc = "TopoSubmit"
    /\ getGridData("gridData", "TopoSample")
    /\ UNCHANGED <<remote, edexHost, figure, fs>>

\* print(gridData[0].getRawData().shape): IndexError on an empty response
TopoSample ==
    /\ nb = "maps" /\ pc = "TopoSample"
    /\ IF ns.gridData = <<>> THEN Raise("IndexError") ELSE Goto("TopoPlot")
    /\ UNCHANGED <<remote, ns, edexHost, sent, figure, fs>>

TopoPlot ==
    /\ nb = "maps" /\ pc = "TopoPlot"
    /\ LET grid == ns.gridData[1]
       IN  /\ ns' = Bind(Bind(Bind(ns, "grid", grid), "topo", grid.raw), "lons", grid.lons)
           /\ figure' = figure \o <<[layer |-> "topo", geoms |-> <<grid.lons>>],
                                    [layer |-> "colorbar", geoms |-> <<>>]>>
    /\ Goto("done")
    /\ UNCHANGED <<remote, edexHost, sent, fs>>

\* -------------------------------------------------- notebook sat, by cell
\* a request to the THREDDS server: refused connection, or received and answered
Fetch(service, of, item) ==
    sent' = Append(sent, [host |-> "thredds", request |->
                              [service |-> service, of |-> of, item |-> item]])

\* get_goes_image: TDSCatalog(url)
OpenGoesCatalog ==
    /\ nb = "sat" /\ pc = "OpenGoesCatalog"
    /\ \/ Raise("HTTPError") /\ UNCHANGED <<ns, sent>>
       \/ /\ Fetch("catalog", "goes", 0)
          /\ ns' = Bind(ns, "cat", goesCat)
          /\ Goto("PickFileNum")
    /\ UNCHANGED <<remote, edexHost, figure, fs>>

\* get_goes_image: if len(list(cat.datasets)) < 10 ... else file_num = 10
PickFileNum ==
    /\ nb = "sat" /\ pc = "PickFileNum"
    /\ ns' = Bind(ns, "file_num",
                  IF Len(ns.cat) < FileNumLimit THEN Len(ns.cat) ELSE FileNumLimit)
    /\ Goto("IndexDataset")
    /\ UNCHANGED <<remote, edexHost, sent, figure, fs>>

\* get_goes_image: ds = cat.datasets[file_num], positions counted from 0
IndexDataset ==
    /\ nb = "sat" /\ pc = "IndexDataset"
    /\ IF ns.file_num < Len(ns.cat)
       THEN ns' = Bind(ns, "ds", ns.cat[ns.file_num + 1]) /\ Goto("RemoteAccess")
       ELSE Raise("IndexError") /\ UNCHANGED ns
    /\ UNCHANGED <<remote, edexHost, sent, figure, fs>>

\* get_goes_image: ds.remote_access(use_xarray=True); return ds
RemoteAccess ==
    /\ nb = "sat" /\ pc = "RemoteAccess"
    /\ \/ Raise("HTTPError") /\ UNCHANGED <<ns, sent>>
       \/ /\ Fetch("opendap", "goes", ns.ds.name)
          /\ ns' = Bind(ns, "ds", [dataset |-> ns.ds.name, time |-> ns.ds.hour])
          /\ Goto("SetVtime")
    /\ UNCHANGED <<remote, edexHost, figure, fs>>

SetVtime ==
    /\ nb = "sat" /\ pc = "SetVtime"
    /\ ns' = Bind(ns, "vtime", ns.ds.time)
    /\ Goto("OpenMetarCatalog")
    /\ UNCHANGED <<remote, edexHost, sent, figure, fs>>

\* cell Get Surface Data from UCAR
OpenMetarCatalog ==
    /\ nb = "sat" /\ pc = "OpenMetarCatalog"
    /\ \/ Raise("HTTPError") /\ UNCHANGED <<ns, sent>>
       \/ /\ Fetch("catalog", "metar", 0)
          /\ ns' = Bind(ns, "cat", metarCat)
          /\ Goto("MetarIndex")
    /\ UNCHANGED <<remote, edexHost, figure, fs>>

\* list(cat.datasets).index(name): ValueError when the name is not listed
MetarIndex ==
    /\ nb = "sat" /\ pc = "MetarIndex"
    /\ LET name == MetarFile(ns.vtime)
       IN  IF name \in Range(ns.cat)
           THEN /\ ns' = Bind(ns, "time_idx",
                              (CHOOSE i \in DOMAIN ns.cat : ns.cat[i] = name) - 1)
                /\ Goto("MetarDownload")
           ELSE Raise("ValueError") /\ UNCHANGED ns
    /\ UNCHANGED <<remote, edexHost, sent, figure, fs>>

\* metar_df.download(f'../../data/{metar_df.name}'): writes that one file
Download_anywhere(fsys, name, content) == [f \in DOMAIN fsys |-> content]
Download(fsys, name, content) == [fsys EXCEPT ![name] = content]
MetarDownload ==
    /\ nb = "sat" /\ pc = "MetarDownload"
    /\ LET metar_df == ns.cat[ns.time_idx + 1]
       IN  \/ /\ Raise("HTTPError")
              /\ ns' = Bind(ns, "metar_df", metar_df)
              /\ UNCHANGED <<sent, fs>>
           \/ /\ Fetch("fileServer", "metar", ns.time_idx + 1)
              /\ ns' = Bind(ns, "metar_df", metar_df)
              /\ fs' = Download(fs, metar_df, "downloaded")
              /\ Goto("ParseMetar")
    /\ UNCHANGED <<remote, edexHost, figure>>

\* metar.parse_metar_file(f'../../data/{metar_df.name}')
ParseMetar ==
    /\ nb = "sat" /\ pc = "ParseMetar"
    /\ IF fs[ns.metar_df] = "absent"
       THEN Raise("FileNotFoundError") /\ UNCHANGED ns
       ELSE ns' = Bind(ns, "df", [file |-> ns.metar_df, content |-> fs[ns.metar_df]])
            /\ Goto("CreatePlot")
    /\ UNCHANGED <<remote, edexHost, sent, figure, fs>>

\* cells Convert Variable and Create Plot: panel.plots = [img, obs, obs2]
CreatePlot ==
    /\ nb = "sat" /\ pc = "CreatePlot"
    /\ figure' = <<[layer |-> "img", data |-> ns.ds.dataset],
                   [layer |-> "obs", data |-> ns.df.file],
                   [layer |-> "obs2", data |-> ns.df.file]>>
    /\ Goto("done")
    /\ UNCHANGED <<remote, ns, edexHost, sent, fs>>

\* ------------------------------------------------------------------ Spec
Next ==
    \/ Setup \/ CountyFilter \/ CountySubmit \/ CountyCollect \/ MergeCounties
    \/ Bounds \/ MakeMap \/ PlotCounties \/ PlotBoundaries
    \/ InterstateConfigure \/ InterstateSubmit \/ InterstatePlot
    \/ CityConfigure \/ CitySubmit \/ CityFilter \/ CityPlot
    \/ LakeConfigure \/ LakeSubmit \/ LakePlot
    \/ RiverConfigure \/ RiverSubmit \/ RiverPlot
    \/ TopoConfigure \/ TopoSubmit \/ TopoSample \/ TopoPlot
    \/ OpenGoesCatalog \/ PickFileNum \/ IndexDataset \/ RemoteAccess \/ SetVtime
    \/ OpenMetarCatalog \/ MetarIndex \/ MetarDownload \/ ParseMetar \/ CreatePlot

Spec == Init /\ [][Next]_vars

\* ---------------------------------------------------------------- claims
Layers == {figure[k].layer : k \in DOMAIN figure}
IsMapsRequest(i, table) ==
    /\ sent[i].request.datatype = "maps"
    /\ "table" \in DOMAIN sent[i].request.identifiers
    /\ sent[i].request.identifiers["table"] = table

\* C1: get_goes_image returns a dataset of the catalog it opened: for every
\* catalog of n >= 1 datasets the position file_num read by cat.datasets[file_num]
\* satisfies 0 <= file_num < n, and the call never ends by an out-of-range failure.
C1_FileNumIsAValidPosition ==
    (nb = "sat" /\ Len(goesCat) >= 1) =>
        /\ pc = "IndexDataset" => (0 <= ns.file_num /\ ns.file_num < Len(ns.cat))
        /\ err # "IndexError"

\* C2 as stated: after every step of every cell the local file system is the
\* same as before the run started.
C2_FileSystemAsBeforeTheRun == fs = fsAtStart

\* C2 amended: the data directory differs from its state before the run in at
\* most one file, the one named metar_df.name that the download step of the
\* sat notebook wrote after the file server received its request; every other
\* step, and the whole maps notebook, leaves the directory as it was.
C2_OnlyTheDownloadedFileChanges ==
    \A f \in DOMAIN fs :
        fs[f] # fsAtStart[f] =>
            /\ nb = "sat"
            /\ Bound("metar_df") /\ f = ns.metar_df
            /\ fs[f] = "downloaded"
            /\ \E i \in DOMAIN sent : sent[i].request.service = "fileServer"
            /\ pc \in {"ParseMetar", "CreatePlot", "done"}
C2_Downloaded ==
    /\ nb = "sat" /\ pc = "ParseMetar"
    /\ fs # fsAtStart
    /\ \E f \in DOMAIN fs : fs[f] = fsAtStart[f]

\* C3: a failed library call ends the run as an unhandled failure: the run is
\* in its failed state with the exception recorded, nothing changes after it,
\* no request is received twice, and reading gridData[0] of an empty response
\* or looking up a METAR file name the catalog does not list is such a failure.
C3_FailureEndsTheRun ==
    /\ [](err # "none" <=> pc = "failed")
    /\ [](\A i, j \in DOMAIN sent : sent[i] = sent[j] => i = j)
    /\ [][err # "none" => UNCHANGED vars]_vars
    /\ [][(pc = "TopoSample" /\ ns.gridData = <<>>) => err' = "IndexError"]_vars
    /\ [][(pc = "MetarIndex" /\ MetarFile(ns.vtime) \notin Range(metarCat))
             => err' = "ValueError"]_vars
C3_EmptyGridFailure ==
    /\ nb = "maps" /\ pc = "failed" /\ err = "IndexError"
    /\ Bound("gridData") /\ ns.gridData = <<>>
    /\ Len(sent) = 6

\* C4: for every dataset of the maps notebook the steps occur in the order
\* configure, submit, process, render: a request the service received carries
\* its table (or group and dataset) and its spatial filter, the requests arrive
\* in the order of the cells, a response is bound only after its request was
\* received, and nothing is derived or drawn from a response not yet bound.
DatasetOrder ==
    <<"mapdata.county", "mapdata.interstate", "mapdata.city", "mapdata.lake",
      "mapdata.majorrivers", "topo">>
C4_ConfigureSubmitProcessRender ==
    nb = "maps" =>
        /\ Len(sent) <= Len(DatasetOrder)
        /\ \A i \in DOMAIN sent :
              LET r == sent[i].request
              IN  /\ sent[i].host = "edex-cloud.unidata.ucar.edu"
                  /\ IF DatasetOrder[i] = "topo"
                     THEN /\ r.datatype = "topo"
                          /\ {"group", "dataset"} \subseteq DOMAIN r.identifiers
                          /\ r.envelope # NoEnvelope
                     ELSE /\ IsMapsRequest(i, DatasetOrder[i])
                          /\ "geomField" \in DOMAIN r.identifiers
                          /\ IF i = 1
                             THEN /\ r.locationNames = {"BOU"}
                                  /\ {"inLocation", "locationField"}
                                        \subseteq DOMAIN r.identifiers
                                  /\ r.identifiers["locationField"] = "cwa"
                             ELSE r.envelope # NoEnvelope
        /\ (Bound("response") => Len(sent) >= 1)
        /\ (Bound("interstates") => Len(sent) >= 2)
        /\ (Bound("cities") => Len(sent) >= 3)
        /\ (Bound("lakes") => Len(sent) >= 4)
        /\ (Bound("rivers") => Len(sent) >= 5)
        /\ (Bound("gridData") => Len(sent) >= 6)
        /\ (Bound("counties") => Bound("response"))
        /\ (Bound("envelope") => Bound("counties"))
        /\ (Bound("citylist") => Bound("cities"))
        /\ ("counties" \in Layers => Bound("counties") /\ Bound("ax"))
        /\ ("interstates" \in Layers => Bound("interstates"))
        /\ ("cities" \in Layers => Bound("citylist"))
        /\ ("lakes" \in Layers => Bound("lakes"))
        /\ ("rivers" \in Layers => Bound("rivers"))
        /\ ("topo" \in Layers => Bound("gridData") /\ ns.gridData # <<>>)
C4_AllRendered ==
    /\ nb = "maps" /\ pc = "done"
    /\ Len(sent) = 6
    /\ {"counties", "interstates", "cities", "lakes", "rivers", "topo"} \subseteq Layers

\* C5: the envelope is the 2-degree buffer of the union of all county geometries
\* the BOU county request returns, and the interstate, city, lake, majorrivers
\* and topo requests are all received with that envelope, never without one.
BouCells == UNION {countyTable[i].geom : i \in {j \in DOMAIN countyTable : countyTable[j].cwa = "BOU"}}
BouEnvelope == UNION {(x - BufferDist)..(x + BufferDist) : x \in BouCells}
C5_OneEnvelopeForEveryRequest ==
    nb = "maps" =>
        /\ Bound("envelope") => ns.envelope = BouEnvelope
        /\ \A i \in DOMAIN sent :
              (i > 1 \/ sent[i].request.datatype = "topo") =>
                  /\ Bound("envelope")
                  /\ sent[i].request.envelope = <<BouEnvelope>>
C5_TopoSentWithEnvelope ==
    /\ nb = "maps" /\ Len(sent) = 6
    /\ sent[6].request.datatype = "topo"
    /\ Cardinality({j \in DOMAIN countyTable : countyTable[j].cwa = "BOU"}) = 2
    /\ Cardinality(BouCells) = 3

\* C6: once the city markers are drawn, a record of the city response is drawn
\* iff its population string is non-empty, its prog_disc exceeds 50 and its
\* population read as an integer exceeds 5000; the markers and the names keep
\* the order of the response and each record is drawn at most once.
IsNumeral(str) ==
    \A i \in DOMAIN str : str[i] \in {"0", "1", "2", "3", "4", "5", "6", "7", "8", "9"}
RECURSIVE ReadDecimal(_, _)
ReadDecimal(str, acc) ==
    IF str = <<>> THEN acc
    ELSE ReadDecimal(Tail(str),
             acc * 10 + (CHOOSE v \in 0..9 : Digits[v + 1] = Head(str)))
Wanted(ob) ==
    /\ ob.attrs["population"] # <<>>
    /\ ob.attrs["prog_disc"] > 50
    /\ IsNumeral(ob.attrs["population"])
    /\ ReadDecimal(ob.attrs["population"], 0) > 5000
====
